---- MODULE Spec2Model ----
(***************************************************************************)
(* Provisioning, deprovisioning, asset swap and deployment-task checklist  *)
(* of the ISP inventory backend (services/customer.py, services/asset.py,  *)
(* services/deployment_task.py), over a relational store.                  *)
(*                                                                         *)
(* The committed database is one record `db` of tables.  A request runs in *)
(* its own SQLAlchemy session: the rows it loads are snapshots taken when  *)
(* the statement runs, and db.commit() flushes, per row, exactly the       *)
(* attributes whose value differs from the loaded one (unit of work), by   *)
(* primary key, then commits.  No statement of the services locks a row.   *)
(*                                                                         *)
(* Spec      : requests run one at a time (each handler is one action).    *)
(* ConcSpec  : two request workers, each handler split at its database     *)
(*             round trips, interleaved arbitrarily.                       *)
(***************************************************************************)
EXTENDS Integers, Sequences, FiniteSets, TLC

VARIABLES db, last, proc

vars == <<db, last, proc>>

(* ------------------------------ bounds -------------------------------- *)

\* requests served one at a time are accepted while the audit log is shorter
\* than this
MaxAudit == 3
\* interleaved requests are accepted while the audit log is shorter than this
MaxConcAudit == 2

(* ----------------------------- constants ------------------------------ *)

\* SQL NULL for a nullable foreign key or timestamp
NULL == 0
\* datetime.now(timezone.utc): some non-null timestamp
Now == 1

\* rows that exist from the start and are never inserted by these services
SplitterIds == {1, 2}
PortIds == {1, 2, 3}
AssetIds == {1, 2, 3, 4}
UserIds == {1, 2, 3}

\* ids tried as request arguments: existing ones and one that names no row
SplitterArgs == SplitterIds \cup {3}
AssetArgs == AssetIds \cup {5}
UserArgs == UserIds \cup {4}
CustomerArgs == {1, 2, 3}
TaskArgs == {1, 2}
\* the users who issue provisioning, swap and task-creation requests
Operators == {3}

UserRole == [u \in UserIds |-> IF u = 3 THEN "Admin" ELSE "Technician"]

Min(S) == CHOOSE x \in S : \A y \in S : x <= y
Max(S) == CHOOSE x \in S : \A y \in S : x >= y

\* Python max(a, b)
PyMax(a, b) == IF a >= b THEN a ELSE b

(* --------------------------- persistence ------------------------------ *)

\* Session.commit() flushing one loaded row: UPDATE ... SET <the attributes
\* whose value differs from the loaded one> WHERE <primary key>
FlushRow(committed, loaded, current) ==
    [f \in DOMAIN committed |->
        IF current[f] # loaded[f] THEN current[f] ELSE committed[f]]

\* services.audit.create_audit_log: one pending AuditLog row
create_audit_log(user, action_type, description) ==
    [user_id |-> user, action_type |-> action_type, description |-> description]

\* a handler that raised, or returned, with nothing committed by this step
Raise(s, code) ==
    [pc |-> "done", op |-> s.op, args |-> s.args, code |-> code, ret |-> "None"]

Return(s, ret) ==
    [pc |-> "done", op |-> s.op, args |-> s.args, code |-> "OK", ret |-> ret]

Goto(s, pc, locals) == locals @@ [s EXCEPT !.pc = pc]

Step(d, s) == [db |-> d, s |-> s]

\* the request is one whose AuditLog insert the database rejects when the
\* session is flushed by db.commit()
AuditRejected(s) ==
    /\ "audit_fails" \in DOMAIN s.args
    /\ s.args.audit_fails

WithAuditFailure(s) ==
    [s EXCEPT !.args = [audit_fails |-> TRUE] @@ @]

(* ------------------- services.customer.create_customer ---------------- *)

CCBegin(user, splitter_id, ont_asset_id, router_asset_id) ==
    [pc |-> "cc_find_port", op |-> "create_customer",
     args |-> [user |-> user, splitter_id |-> splitter_id,
               ont_asset_id |-> ont_asset_id,
               router_asset_id |-> router_asset_id]]

\* mutant: the query forgets the splitter_id criterion
FindFreePortAnySplitter(ports, splitter_id) ==
    LET free == {p \in DOMAIN ports : ports[p].port_status = "free"}
    IN IF free = {} THEN NULL ELSE Min(free)

FindFreePortHighest(ports, splitter_id) ==
    LET free == {p \in DOMAIN ports :
                    /\ ports[p].splitter_id = splitter_id
                    /\ ports[p].port_status = "free"}
    IN IF free = {} THEN NULL ELSE Max(free)

\* select(Port).where(splitter_id, free).order_by(port_id).limit(1)
FindFreePort(ports, splitter_id) ==
    LET free == {p \in DOMAIN ports :
                    /\ ports[p].splitter_id = splitter_id
                    /\ ports[p].port_status = "free"}
    IN IF free = {} THEN NULL ELSE Min(free)

CCFindPort(d, s) ==
    LET port_id == FindFreePort(d.ports, s.args.splitter_id)
    IN IF port_id = NULL
       THEN Step(d, Raise(s, "HTTP_409_CONFLICT"))
       ELSE Step(d, Goto(s, "cc_get_splitter",
                    [port_id |-> port_id, port_to_assign |-> d.ports[port_id]]))

CCGetSplitter(d, s) ==
    IF s.args.splitter_id \notin DOMAIN d.splitters
    THEN Step(d, Raise(s, "HTTP_404_NOT_FOUND"))
    ELSE Step(d, Goto(s, "cc_get_ont",
                 [splitter_to_update |-> d.splitters[s.args.splitter_id]]))

\* db.get(Asset, id) and the check `asset and status == available and type == t`
AssetUsableAnyType(assets, asset_id, type) ==
    /\ asset_id \in DOMAIN assets
    /\ assets[asset_id].status = "available"

AssetUsable(assets, asset_id, type) ==
    /\ asset_id \in DOMAIN assets
    /\ assets[asset_id].status = "available"
    /\ assets[asset_id].type = type

CCGetOnt(d, s) ==
    IF ~AssetUsable(d.assets, s.args.ont_asset_id, "ONT")
    THEN Step(d, Raise(s, "HTTP_409_CONFLICT"))
    ELSE Step(d, Goto(s, "cc_get_router",
                 [ont_asset |-> d.assets[s.args.ont_asset_id]]))

\* mutant: the port is marked and committed before the router is validated
CCGetRouterAfterPortCommit(d, s) ==
    IF ~AssetUsable(d.assets, s.args.router_asset_id, "Router")
    THEN Step([d EXCEPT !.ports[s.port_id].port_status = "occupied"],
              Raise(s, "HTTP_409_CONFLICT"))
    ELSE Step(d, Goto(s, "cc_flush_customer",
                 [router_asset |-> d.assets[s.args.router_asset_id]]))

CCGetRouter(d, s) ==
    IF ~AssetUsable(d.assets, s.args.router_asset_id, "Router")
    THEN Step(d, Raise(s, "HTTP_409_CONFLICT"))
    ELSE Step(d, Goto(s, "cc_flush_customer",
                 [router_asset |-> d.assets[s.args.router_asset_id]]))

\* db.add(new_customer); db.flush(): the INSERT takes the next autoincrement
\* id; the row stays private to the transaction until commit
CCFlushCustomerCommitted(d, s) ==
    Step([d EXCEPT !.next_customer_id = @ + 1,
                   !.customers = (d.next_customer_id :> [status |-> "Pending"]) @@ @],
         Goto(s, "cc_commit", [new_customer_id |-> d.next_customer_id]))

CCFlushCustomer(d, s) ==
    Step([d EXCEPT !.next_customer_id = @ + 1],
         Goto(s, "cc_commit", [new_customer_id |-> d.next_customer_id]))

\* the rows create_customer has changed in its session when it commits
CCPortAssigned(s) ==
    [s.port_to_assign EXCEPT !.port_status = "occupied",
                             !.customer_id = s.new_customer_id]

CCSplitterCounted(s) ==
    [s.splitter_to_update EXCEPT !.used_ports = @ + 1]

CCOntAssigned(s) ==
    [s.ont_asset EXCEPT !.status = "assigned",
                        !.assigned_to_customer_id = s.new_customer_id,
                        !.port_id = s.port_id]

CCRouterBoundToPort(s) ==
    [s.router_asset EXCEPT !.status = "assigned",
                           !.assigned_to_customer_id = s.new_customer_id,
                           !.port_id = s.port_id]

\* mutant: the router is marked assigned but not bound to the customer
CCRouterStatusOnly(s) ==
    [s.router_asset EXCEPT !.status = "assigned"]

CCRouterAssigned(s) ==
    [s.router_asset EXCEPT !.status = "assigned",
                           !.assigned_to_customer_id = s.new_customer_id]

NewAssignment(asset_id, customer_id) ==
    [asset_id |-> asset_id, customer_id |-> customer_id,
     bearing_status |-> "bearing", date_of_return |-> NULL]

CCCommit(d, s) ==
    LET cid == s.new_customer_id
        sid == s.args.splitter_id
        ont == s.args.ont_asset_id
        rtr == s.args.router_asset_id
        d1 == [d EXCEPT
                !.customers = (cid :> [status |-> "Pending"]) @@ @,
                !.ports[s.port_id] =
                    FlushRow(@, s.port_to_assign, CCPortAssigned(s)),
                !.splitters[sid] =
                    FlushRow(@, s.splitter_to_update, CCSplitterCounted(s)),
                !.assets[ont] = FlushRow(@, s.ont_asset, CCOntAssigned(s)),
                !.assignments = @ \o <<NewAssignment(ont, cid),
                                       NewAssignment(rtr, cid)>>,
                !.audit = Append(@, create_audit_log(s.args.user, "CREATE",
                                        <<"created customer", cid>>))]
        d2 == [d1 EXCEPT
                !.assets[rtr] = FlushRow(@, s.router_asset, CCRouterAssigned(s))]
    IN Step(d2, [Return(s, d2.customers[cid].status) EXCEPT !.args =
                    [user |-> s.args.user,
                     splitter_id |-> s.args.splitter_id,
                     ont_asset_id |-> s.args.ont_asset_id,
                     router_asset_id |-> s.args.router_asset_id,
                     customer_id |-> cid]])

\* db.commit() raises: except Exception: db.rollback(), HTTPException 500
CCRollback(d, s) ==
    Step(d, Raise(s, "HTTP_500_INTERNAL_SERVER_ERROR"))

(* ------- services.customer.deactivate_customer_and_provisioning ------- *)

\* `order` is the row order in which the database returns the eagerly loaded
\* collections (the query states none)
DCBegin(user, customer_id, order) ==
    [pc |-> "dc_load_customer", op |-> "deactivate_customer_and_provisioning",
     args |-> [user |-> user, customer_id |-> customer_id],
     order |-> order]

\* next((x for x in collection if ...), None) over a collection loaded in
\* the given row order
First(candidates, order) ==
    IF candidates = {} THEN NULL
    ELSE IF order = "asc" THEN Min(candidates) ELSE Max(candidates)

\* customer.ports filtered by port_status == occupied
OccupiedPortsOf(d, customer_id) ==
    {p \in DOMAIN d.ports : /\ d.ports[p].customer_id = customer_id
                            /\ d.ports[p].port_status = "occupied"}

\* customer.assets filtered by type and status == assigned
AssignedAssetsOf(d, customer_id, type) ==
    {a \in DOMAIN d.assets :
        /\ d.assets[a].assigned_to_customer_id = customer_id
        /\ d.assets[a].type = type
        /\ d.assets[a].status = "assigned"}

\* customer.asset_assignments filtered by asset_id and date_of_return is None
\* (asset_id NULL: the asset was not found, the generator yields nothing)
OpenAssignmentsOf(d, customer_id, asset_id) ==
    {i \in 1..Len(d.assignments) :
        /\ asset_id # NULL
        /\ d.assignments[i].customer_id = customer_id
        /\ d.assignments[i].asset_id = asset_id
        /\ d.assignments[i].date_of_return = NULL}

\* a loaded row, or NULL when nothing was found
Loaded(table, key) == IF key = NULL THEN NULL ELSE table[key]

DCLoadCustomerNoEarlyReturn(d, s) ==
    LET cid == s.args.customer_id IN
    IF cid \notin DOMAIN d.customers
    THEN Step(d, Raise(s, "HTTP_404_NOT_FOUND"))
    ELSE
      LET port_id == First(OccupiedPortsOf(d, cid), s.order)
          ont_id == First(AssignedAssetsOf(d, cid, "ONT"), s.order)
          router_id == First(AssignedAssetsOf(d, cid, "Router"), s.order)
          ont_asg == First(OpenAssignmentsOf(d, cid, ont_id), s.order)
          router_asg == First(OpenAssignmentsOf(d, cid, router_id), s.order)
      IN Step(d, Goto(s, IF port_id = NULL THEN "dc_commit"
                         ELSE "dc_get_splitter",
                [customer |-> d.customers[cid],
                 port_id |-> port_id,
                 port_to_free |-> Loaded(d.ports, port_id),
                 splitter_id |-> NULL,
                 splitter_to_update |-> NULL,
                 ont_id |-> ont_id,
                 ont_asset |-> Loaded(d.assets, ont_id),
                 router_id |-> router_id,
                 router_asset |-> Loaded(d.assets, router_id),
                 ont_assignment_id |-> ont_asg,
                 ont_assignment |-> Loaded(d.assignments, ont_asg),
                 router_assignment_id |-> router_asg,
                 router_assignment |-> Loaded(d.assignments, router_asg)]))

DCLoadCustomer(d, s) ==
    LET cid == s.args.customer_id IN
    IF cid \notin DOMAIN d.customers
    THEN Step(d, Raise(s, "HTTP_404_NOT_FOUND"))
    ELSE IF d.customers[cid].status = "Inactive"
    THEN Step(d, Return(s, d.customers[cid].status))
    ELSE
      LET port_id == First(OccupiedPortsOf(d, cid), s.order)
          ont_id == First(AssignedAssetsOf(d, cid, "ONT"), s.order)
          router_id == First(AssignedAssetsOf(d, cid, "Router"), s.order)
          ont_asg == First(OpenAssignmentsOf(d, cid, ont_id), s.order)
          router_asg == First(OpenAssignmentsOf(d, cid, router_id), s.order)
      IN Step(d, Goto(s, IF port_id = NULL THEN "dc_commit"
                         ELSE "dc_get_splitter",
                [customer |-> d.customers[cid],
                 port_id |-> port_id,
                 port_to_free |-> Loaded(d.ports, port_id),
                 splitter_id |-> NULL,
                 splitter_to_update |-> NULL,
                 ont_id |-> ont_id,
                 ont_asset |-> Loaded(d.assets, ont_id),
                 router_id |-> router_id,
                 router_asset |-> Loaded(d.assets, router_id),
                 ont_assignment_id |-> ont_asg,
                 ont_assignment |-> Loaded(d.assignments, ont_asg),
                 router_assignment_id |-> router_asg,
                 router_assignment |-> Loaded(d.assignments, router_asg)]))

\* db.get(Splitter, port_to_free.splitter_id)
DCGetSplitter(d, s) ==
    LET sid == s.port_to_free.splitter_id
    IN Step(d, [s EXCEPT !.pc = "dc_commit",
                         !.splitter_id = sid,
                         !.splitter_to_update = d.splitters[sid]])

\* mutant: the wrong member of CustomerStatus
DCCustomerSetPending(row) == [row EXCEPT !.status = "Pending"]

\* the rows deactivation has changed in its session when it commits
DCCustomerDeactivated(row) == [row EXCEPT !.status = "Inactive"]

DCPortStatusOnly(row) ==
    [row EXCEPT !.port_status = "free"]

DCPortFreed(row) ==
    [row EXCEPT !.port_status = "free", !.customer_id = NULL]

DCSplitterCounted(row) ==
    [row EXCEPT !.used_ports = PyMax(0, @ - 1)]

DCOntFreed(row) ==
    [row EXCEPT !.status = "available", !.assigned_to_customer_id = NULL,
                !.port_id = NULL]

DCRouterFreed(row) ==
    [row EXCEPT !.status = "available", !.assigned_to_customer_id = NULL]

AssignmentClosed(row) ==
    [row EXCEPT !.date_of_return = Now, !.bearing_status = "returned"]

\* flush of one row of `table` that the session may not have found
FlushFound(table, key, loaded, current) ==
    IF key = NULL THEN table
    ELSE [table EXCEPT ![key] = FlushRow(@, loaded, current)]

DCCommitTasksFailed(d, s) ==
    LET cid == s.args.customer_id
        assets1 == FlushFound(d.assets, s.ont_id, s.ont_asset,
                              DCOntFreed(s.ont_asset))
        assets2 == FlushFound(assets1, s.router_id, s.router_asset,
                              DCRouterFreed(s.router_asset))
        asg1 == FlushFound(d.assignments, s.ont_assignment_id,
                           s.ont_assignment, AssignmentClosed(s.ont_assignment))
        asg2 == FlushFound(asg1, s.router_assignment_id, s.router_assignment,
                           AssignmentClosed(s.router_assignment))
        d1 == [d EXCEPT
                !.customers[cid] =
                    FlushRow(@, s.customer, DCCustomerDeactivated(s.customer)),
                !.ports = FlushFound(@, s.port_id, s.port_to_free,
                                     DCPortFreed(s.port_to_free)),
                !.splitters = FlushFound(@, s.splitter_id, s.splitter_to_update,
                                     DCSplitterCounted(s.splitter_to_update)),
                !.assets = assets2,
                !.assignments = asg2,
                !.tasks = [t \in DOMAIN @ |->
                            IF @[t].customer_id = cid
                                /\ @[t].status \notin {"Completed", "Failed"}
                            THEN [@[t] EXCEPT !.status = "Failed"] ELSE @[t]],
                !.audit = Append(@, create_audit_log(s.args.user, "UPDATE",
                                        <<"deactivated customer", cid>>))]
    IN Step(d1, Return(s, d1.customers[cid].status))

DCCommit(d, s) ==
    LET cid == s.args.customer_id
        assets1 == FlushFound(d.assets, s.ont_id, s.ont_asset,
                              DCOntFreed(s.ont_asset))
        assets2 == FlushFound(assets1, s.router_id, s.router_asset,
                              DCRouterFreed(s.router_asset))
        asg1 == FlushFound(d.assignments, s.ont_assignment_id,
                           s.ont_assignment, AssignmentClosed(s.ont_assignment))
        asg2 == FlushFound(asg1, s.router_assignment_id, s.router_assignment,
                           AssignmentClosed(s.router_assignment))
        d1 == [d EXCEPT
                !.customers[cid] =
                    FlushRow(@, s.customer, DCCustomerDeactivated(s.customer)),
                !.ports = FlushFound(@, s.port_id, s.port_to_free,
                                     DCPortFreed(s.port_to_free)),
                !.splitters = FlushFound(@, s.splitter_id, s.splitter_to_update,
                                     DCSplitterCounted(s.splitter_to_update)),
                !.assets = assets2,
                !.assignments = asg2,
                !.audit = Append(@, create_audit_log(s.args.user, "UPDATE",
                                        <<"deactivated customer", cid>>))]
    IN Step(d1, Return(s, d1.customers[cid].status))

\* db.commit() raises: except Exception: db.rollback(), HTTPException 500
DCRollback(d, s) ==
    Step(d, Raise(s, "HTTP_500_INTERNAL_SERVER_ERROR"))

(* ------------- services.asset.update_asset ---------------------------- *)

\* db.models.AssetStatus: the values a request can name
AssetStatus == {"assigned", "available", "faulty", "retired"}

UABegin(user, asset_id, status) ==
    [pc |-> "ua_get_asset", op |-> "update_asset",
     args |-> [user |-> user, asset_id |-> asset_id, status |-> status]]

UAGetAsset(d, s) ==
    LET asset_id == s.args.asset_id
    IN IF asset_id \notin DOMAIN d.assets
       THEN Step(d, Raise(s, "HTTP_404_NOT_FOUND"))
       ELSE IF d.assets[asset_id].status = "assigned"
       THEN Step(d, Raise(s, "HTTP_400_BAD_REQUEST"))
       ELSE Step(d, Goto(s, "ua_commit", [asset |-> d.assets[asset_id]]))

UAStatusSet(row, status) ==
    [row EXCEPT !.status = status]

UACommitAnyStatus(d, s) ==
    LET asset_id == s.args.asset_id
    IN Step([d EXCEPT
                !.assets[asset_id] =
                    FlushRow(@, s.asset, UAStatusSet(s.asset, s.args.status)),
                !.audit = Append(@, create_audit_log(s.args.user, "UPDATE",
                            <<"updated asset", asset_id, s.args.status>>))],
            Return(s, asset_id))

UACommit(d, s) ==
    LET asset_id == s.args.asset_id
    IN IF s.args.status = "assigned"
       THEN Step(d, Raise(s, "HTTP_400_BAD_REQUEST"))
       ELSE Step([d EXCEPT
                    !.assets[asset_id] =
                        FlushRow(@, s.asset, UAStatusSet(s.asset, s.args.status)),
                    !.audit = Append(@, create_audit_log(s.args.user, "UPDATE",
                                <<"updated asset", asset_id, s.args.status>>))],
                 Return(s, asset_id))

(* ------------- services.asset.delete_asset ---------------------------- *)

DABegin(user, asset_id) ==
    [pc |-> "da_get_asset", op |-> "delete_asset",
     args |-> [user |-> user, asset_id |-> asset_id]]

DAGetAsset(d, s) ==
    LET asset_id == s.args.asset_id
    IN IF asset_id \notin DOMAIN d.assets
       THEN Step(d, Raise(s, "HTTP_404_NOT_FOUND"))
       ELSE IF d.assets[asset_id].status = "assigned"
       THEN Step(d, Raise(s, "HTTP_400_BAD_REQUEST"))
       ELSE Step(d, Goto(s, "da_commit", [asset |-> d.assets[asset_id]]))

\* the AssetAssignment rows of the asset: the flush of db.delete(asset) sets
\* their asset_id, a column that is not nullable, to NULL
AssignmentsOf(d, asset_id) ==
    {i \in 1..Len(d.assignments) : d.assignments[i].asset_id = asset_id}

DACommit(d, s) ==
    LET asset_id == s.args.asset_id
    IN IF AssignmentsOf(d, asset_id) # {}
       THEN Step(d, Raise(s, "IntegrityError"))
       ELSE Step([d EXCEPT
                    !.assets = [x \in DOMAIN @ \ {asset_id} |-> @[x]],
                    !.audit = Append(@, create_audit_log(s.args.user, "DELETE",
                                <<"deleted asset", asset_id>>))],
                 Return(s, "None"))

(* ------------- services.asset.swap_assets ----------------------------- *)

SWBegin(user, old_asset_id, new_asset_id) ==
    [pc |-> "sw_get_assets", op |-> "swap_assets",
     args |-> [user |-> user, old_asset_id |-> old_asset_id,
               new_asset_id |-> new_asset_id]]

SWGetAssets(d, s) ==
    LET old == s.args.old_asset_id
        new == s.args.new_asset_id
    IN IF old \notin DOMAIN d.assets \/ new \notin DOMAIN d.assets
       THEN Step(d, Raise(s, "HTTP_404_NOT_FOUND"))
       ELSE IF d.assets[old].status # "assigned"
       THEN Step(d, Raise(s, "HTTP_400_BAD_REQUEST"))
       ELSE IF d.assets[new].status # "available"
       THEN Step(d, Raise(s, "HTTP_400_BAD_REQUEST"))
       ELSE IF d.assets[old].type # d.assets[new].type
       THEN Step(d, Raise(s, "HTTP_400_BAD_REQUEST"))
       ELSE Step(d, Goto(s, "sw_find_assignment",
                    [old_asset |-> d.assets[old], new_asset |-> d.assets[new]]))

\* the Python expression `AssetAssignment.date_of_return is None`: an identity
\* test of the column attribute object against None, evaluated before the
\* query is built
DateOfReturnIsNone == FALSE

\* db.query(AssetAssignment).filter(asset_id == old, <that value>).first()
SWOldAssignment(d, asset_id) ==
    LET found == {i \in 1..Len(d.assignments) :
                    /\ d.assignments[i].asset_id = asset_id
                    /\ DateOfReturnIsNone}
    IN IF found = {} THEN NULL ELSE Min(found)

SWFindAssignment(d, s) ==
    LET i == SWOldAssignment(d, s.args.old_asset_id)
    IN Step(d, Goto(s, "sw_commit",
                [old_assignment_id |-> i,
                 old_assignment |-> Loaded(d.assignments, i)]))

SWOldFreed(row) ==
    [row EXCEPT !.status = "available", !.assigned_to_customer_id = NULL,
                !.port_id = NULL]

SWNewAssigned(row, customer_id, port_id) ==
    [row EXCEPT !.status = "assigned",
                !.assigned_to_customer_id = customer_id,
                !.port_id = port_id]

SWCommit(d, s) ==
    LET old == s.args.old_asset_id
        new == s.args.new_asset_id
        customer_id == s.old_asset.assigned_to_customer_id
        port_id == s.old_asset.port_id
        d1 == [d EXCEPT
                !.assignments =
                    Append(FlushFound(@, s.old_assignment_id, s.old_assignment,
                                      AssignmentClosed(s.old_assignment)),
                           NewAssignment(new, customer_id)),
                !.assets[old] = FlushRow(@, s.old_asset, SWOldFreed(s.old_asset)),
                !.audit = Append(@, create_audit_log(s.args.user, "UPDATE",
                                        <<"swapped asset", old>>))]
        d2 == [d1 EXCEPT
                !.assets[new] = FlushRow(@, s.new_asset,
                                  SWNewAssigned(s.new_asset, customer_id, port_id))]
    IN Step(d2, Return(s, new))

(* ------------- services.deployment_task.create_deployment_task -------- *)

CTBegin(user, customer_id, user_id) ==
    [pc |-> "ct_get_customer", op |-> "create_deployment_task",
     args |-> [user |-> user, customer_id |-> customer_id, user_id |-> user_id]]

CTGetCustomer(d, s) ==
    IF s.args.customer_id \notin DOMAIN d.customers
    THEN Step(d, Raise(s, "CustomerNotFoundError"))
    ELSE IF d.customers[s.args.customer_id].status # "Pending"
    THEN Step(d, Raise(s, "Exception"))
    ELSE Step(d, [s EXCEPT !.pc = "ct_get_user"])

CTGetUser(d, s) ==
    IF s.args.user_id \notin UserIds
    THEN Step(d, Raise(s, "UserNotFoundError"))
    ELSE Step(d, [s EXCEPT !.pc = "ct_commit"])

\* DeploymentTask(customer_id, user_id, ...) with the column defaults
NewTask(customer_id, user_id) ==
    [customer_id |-> customer_id, user_id |-> user_id, status |-> "Scheduled",
     step_1 |-> FALSE, step_2 |-> FALSE, step_3 |-> FALSE]

\* db.add(new_task); db.flush(); create_audit_log(...); db.commit()
CTCommitAuditOverwritten(d, s) ==
    LET task_id == d.next_task_id
        row == create_audit_log(s.args.user, "CREATE", <<"created task", task_id>>)
        d1 == [d EXCEPT
                !.next_task_id = @ + 1,
                !.tasks = (task_id :> NewTask(s.args.customer_id,
                                              s.args.user_id)) @@ @,
                !.audit = IF @ = <<>> THEN <<row>>
                          ELSE [@ EXCEPT ![Len(@)] = row]]
    IN Step(d1, [Return(s, d1.tasks[task_id].status) EXCEPT !.args =
                    [user |-> s.args.user,
                     customer_id |-> s.args.customer_id,
                     user_id |-> s.args.user_id,
                     task_id |-> task_id]])

CTCommit(d, s) ==
    LET task_id == d.next_task_id
        d1 == [d EXCEPT
                !.next_task_id = @ + 1,
                !.tasks = (task_id :> NewTask(s.args.customer_id,
                                              s.args.user_id)) @@ @,
                !.audit = Append(@, create_audit_log(s.args.user, "CREATE",
                                        <<"created task", task_id>>))]
    IN Step(d1, [Return(s, d1.tasks[task_id].status) EXCEPT !.args =
                    [user |-> s.args.user,
                     customer_id |-> s.args.customer_id,
                     user_id |-> s.args.user_id,
                     task_id |-> task_id]])

(* -------------- services.deployment_task.update_task_checklist -------- *)

CKBegin(user, task_id, step_1, step_2, step_3) ==
    [pc |-> "ck_load_task", op |-> "update_task_checklist",
     args |-> [user |-> user, task_id |-> task_id,
               step_1 |-> step_1, step_2 |-> step_2, step_3 |-> step_3]]

\* the status derived from the checklist (the if / elif / else on the steps)
ChecklistStatus(step_1, step_2, step_3) ==
    IF step_1 /\ step_2 /\ step_3 THEN "Completed"
    ELSE IF step_1 \/ step_2 \/ step_3 THEN "InProgress"
    ELSE "Scheduled"

\* mutant: the status only ever moves forward to Completed (the earlier,
\* commented-out version of the handler)
CKTaskUpdatedCompletedOnly(task, old_status, step_1, step_2, step_3) ==
    [task EXCEPT !.step_1 = step_1, !.step_2 = step_2, !.step_3 = step_3,
                 !.status = IF step_1 /\ step_2 /\ step_3 THEN "Completed"
                            ELSE old_status]

\* the task as the handler leaves it in its session
CKTaskUpdated(task, old_status, step_1, step_2, step_3) ==
    [task EXCEPT !.step_1 = step_1, !.step_2 = step_2, !.step_3 = step_3,
                 !.status = ChecklistStatus(step_1, step_2, step_3)]

\* mutant: completion does not cascade to the customer
CKCustomerUntouched(customer, task) == customer

\* the linked customer as the handler leaves it in its session
CKCustomerUpdated(customer, task) ==
    IF task.step_1 /\ task.step_2 /\ task.step_3
    THEN [customer EXCEPT !.status = "Active"]
    ELSE customer

\* mutant: the permission check compares the task's user with the task id
CKLoadTaskWrongOwner(d, s) ==
    LET tid == s.args.task_id IN
    IF tid \notin DOMAIN d.tasks
    THEN Step(d, Raise(s, "HTTP_404_NOT_FOUND"))
    ELSE IF /\ UserRole[s.args.user] = "Technician"
            /\ d.tasks[tid].user_id # tid
    THEN Step(d, Raise(s, "HTTP_403_FORBIDDEN"))
    ELSE IF d.tasks[tid].status \in {"Completed", "Failed"}
    THEN Step(d, Raise(s, "HTTP_400_BAD_REQUEST"))
    ELSE Step(d, Goto(s, "ck_commit",
                 [task |-> d.tasks[tid],
                  customer |-> d.customers[d.tasks[tid].customer_id]]))

\* mutant: the finalized-task guard tests Completed only
CKLoadTaskCompletedOnly(d, s) ==
    LET tid == s.args.task_id IN
    IF tid \notin DOMAIN d.tasks
    THEN Step(d, Raise(s, "HTTP_404_NOT_FOUND"))
    ELSE IF /\ UserRole[s.args.user] = "Technician"
            /\ d.tasks[tid].user_id # s.args.user
    THEN Step(d, Raise(s, "HTTP_403_FORBIDDEN"))
    ELSE IF d.tasks[tid].status = "Completed"
    THEN Step(d, Raise(s, "HTTP_400_BAD_REQUEST"))
    ELSE Step(d, Goto(s, "ck_commit",
                 [task |-> d.tasks[tid],
                  customer |-> d.customers[d.tasks[tid].customer_id]]))

CKLoadTask(d, s) ==
    LET tid == s.args.task_id IN
    IF tid \notin DOMAIN d.tasks
    THEN Step(d, Raise(s, "HTTP_404_NOT_FOUND"))
    ELSE IF /\ UserRole[s.args.user] = "Technician"
            /\ d.tasks[tid].user_id # s.args.user
    THEN Step(d, Raise(s, "HTTP_403_FORBIDDEN"))
    ELSE IF d.tasks[tid].status \in {"Completed", "Failed"}
    THEN Step(d, Raise(s, "HTTP_400_BAD_REQUEST"))
    ELSE Step(d, Goto(s, "ck_commit",
                 [task |-> d.tasks[tid],
                  customer |-> d.customers[d.tasks[tid].customer_id]]))

CKCommit(d, s) ==
    LET tid == s.args.task_id
        cid == s.task.customer_id
        task == CKTaskUpdated(s.task, s.task.status, s.args.step_1,
                              s.args.step_2, s.args.step_3)
        d1 == [d EXCEPT
                !.tasks[tid] = FlushRow(@, s.task, task),
                !.customers[cid] =
                    FlushRow(@, s.customer, CKCustomerUpdated(s.customer, task)),
                !.audit = Append(@, create_audit_log(s.args.user, "UPDATE",
                                        <<"updated checklist", tid,
                                          s.task.status, task.status>>))]
    IN Step(d1, Return(s, d1.tasks[tid].status))

CKRollbackAfterCommit(d, s) ==
    LET r == CKCommit(d, s)
    IN Step([r.db EXCEPT !.audit = d.audit], Raise(s, "SQLAlchemyError"))

\* db.commit() raises and the handler does not catch it: the failed flush
\* rolls the transaction back and get_db rolls back and closes the session
CKRollback(d, s) ==
    Step(d, Raise(s, "SQLAlchemyError"))

(* ------------------------ read-only operations ------------------------ *)

\* the READ audit row is pending; db.commit() writes it, or the insert is
\* rejected and db.commit() raises
ReadAudited(d, s, description) ==
    [d EXCEPT !.audit = Append(@,
        create_audit_log(s.args.user, "READ", description))]

GPBegin(user, splitter_id) ==
    [pc |-> "get_ports_for_splitter", op |-> "get_ports_for_splitter",
     args |-> [user |-> user, splitter_id |-> splitter_id]]

\* services.splitter.get_ports_for_splitter: the audit write is inside
\* try/except Exception, the ports are returned either way
get_ports_for_splitter(d, s) ==
    LET ports == {p \in DOMAIN d.ports :
                    d.ports[p].splitter_id = s.args.splitter_id}
    IN  IF AuditRejected(s) THEN Step(d, Return(s, ports))
        ELSE Step(ReadAudited(d, s, <<"viewed ports", s.args.splitter_id,
                                      Cardinality(ports)>>),
                  Return(s, ports))

GUBegin(user) ==
    [pc |-> "get_all_users", op |-> "get_all_users", args |-> [user |-> user]]

\* services.user.get_all_users: the audit write is inside try/except
\* Exception, the users are returned either way
get_all_users(d, s) ==
    LET users == UserIds
    IN  IF AuditRejected(s) THEN Step(d, Return(s, users))
        ELSE Step(ReadAudited(d, s, <<"fetched the complete user list">>),
                  Return(s, users))

GCBegin(user, status) ==
    [pc |-> "get_customers_by_status", op |-> "get_customers_by_status",
     args |-> [user |-> user, status |-> status]]

\* Customer.status == status, and for Pending ~Customer.deployment_tasks.any()
CustomersByStatus(d, status) ==
    {c \in DOMAIN d.customers :
        /\ d.customers[c].status = status
        /\ status = "Pending"
            => ~ \E t \in DOMAIN d.tasks : d.tasks[t].customer_id = c}

\* services.customer.get_customers_by_status: create_audit_log and
\* db.commit() stand outside any try block, the query runs after the commit
get_customers_by_status(d, s) ==
    IF AuditRejected(s) THEN Step(d, Raise(s, "SQLAlchemyError"))
    ELSE Step(ReadAudited(d, s, <<"fetched customers">>),
              Return(s, CustomersByStatus(d, s.args.status)))

GDBegin(user, customer_id, order) ==
    [pc |-> "get_customer_provisioning_details",
     op |-> "get_customer_provisioning_details",
     args |-> [user |-> user, customer_id |-> customer_id],
     order |-> order]

\* CustomerProvisioningDetailsRead(port, ont_asset, router_asset)
ProvisioningDetails(d, customer_id, order) ==
    [port |-> First(OccupiedPortsOf(d, customer_id), order),
     ont_asset |-> First(AssignedAssetsOf(d, customer_id, "ONT"), order),
     router_asset |-> First(AssignedAssetsOf(d, customer_id, "Router"), order)]

\* services.customer.get_customer_provisioning_details: 404 for an unknown
\* customer; create_audit_log and db.commit() stand outside any try block
get_customer_provisioning_details(d, s) ==
    IF s.args.customer_id \notin DOMAIN d.customers
    THEN Step(d, Raise(s, "HTTP_404_NOT_FOUND"))
    ELSE IF AuditRejected(s) THEN Step(d, Raise(s, "SQLAlchemyError"))
    ELSE Step(ReadAudited(d, s, <<"viewed provisioning details",
                                  s.args.customer_id>>),
              Return(s, ProvisioningDetails(d, s.args.customer_id, s.order)))

GXBegin(user, customer_id, order) ==
    [pc |-> "get_customer_deactivation_details",
     op |-> "get_customer_deactivation_details",
     args |-> [user |-> user, customer_id |-> customer_id],
     order |-> order]

\* services.customer.get_customer_deactivation_details: 404 for an unknown
\* customer; any exception of get_customer_provisioning_details, its audit
\* commit included, becomes HTTP 500; then a second READ row is committed
get_customer_deactivation_details(d, s) ==
    IF s.args.customer_id \notin DOMAIN d.customers
    THEN Step(d, Raise(s, "HTTP_404_NOT_FOUND"))
    ELSE LET inner == get_customer_provisioning_details(d, s)
         IN  IF inner.s.code # "OK"
             THEN Step(d, Raise(s, "HTTP_500_INTERNAL_SERVER_ERROR"))
             ELSE Step(ReadAudited(inner.db, s,
                           <<"viewed deactivation details",
                             s.args.customer_id>>),
                       Return(s, [customer |-> s.args.customer_id,
                                  provisioning |-> inner.s.ret]))

GTBegin(user, status) ==
    [pc |-> "get_tasks_by_status", op |-> "get_tasks_by_status",
     args |-> [user |-> user, status |-> status]]

\* DeploymentTask.status == status, a Technician sees only their own tasks
TasksByStatus(d, user, status) ==
    {t \in DOMAIN d.tasks :
        /\ d.tasks[t].status = status
        /\ UserRole[user] = "Technician" => d.tasks[t].user_id = user}

\* services.deployment_task.get_tasks_by_status: create_audit_log and
\* db.commit() stand outside any try block, the query runs after the commit
get_tasks_by_status(d, s) ==
    IF AuditRejected(s) THEN Step(d, Raise(s, "SQLAlchemyError"))
    ELSE Step(ReadAudited(d, s, <<"viewed task list", s.args.status>>),
              Return(s, TasksByStatus(d, s.args.user, s.args.status)))

(* ------------------------- running a handler -------------------------- *)

\* one database round trip of the request whose session is s
Handler(d, s) ==
    CASE s.pc = "cc_find_port" -> CCFindPort(d, s)
      [] s.pc = "cc_get_splitter" -> CCGetSplitter(d, s)
      [] s.pc = "cc_get_ont" -> CCGetOnt(d, s)
      [] s.pc = "cc_get_router" -> CCGetRouter(d, s)
      [] s.pc = "cc_flush_customer" -> CCFlushCustomer(d, s)
      [] s.pc = "cc_commit" ->
            IF AuditRejected(s) THEN CCRollback(d, s) ELSE CCCommit(d, s)
      [] s.pc = "dc_load_customer" -> DCLoadCustomer(d, s)
      [] s.pc = "dc_get_splitter" -> DCGetSplitter(d, s)
      [] s.pc = "dc_commit" ->
            IF AuditRejected(s) THEN DCRollback(d, s) ELSE DCCommit(d, s)
      [] s.pc = "ua_get_asset" -> UAGetAsset(d, s)
      [] s.pc = "ua_commit" -> UACommit(d, s)
      [] s.pc = "da_get_asset" -> DAGetAsset(d, s)
      [] s.pc = "da_commit" -> DACommit(d, s)
      [] s.pc = "sw_get_assets" -> SWGetAssets(d, s)
      [] s.pc = "sw_find_assignment" -> SWFindAssignment(d, s)
      [] s.pc = "sw_commit" -> SWCommit(d, s)
      [] s.pc = "ct_get_customer" -> CTGetCustomer(d, s)
      [] s.pc = "ct_get_user" -> CTGetUser(d, s)
      [] s.pc = "ct_commit" -> CTCommit(d, s)
      [] s.pc = "get_ports_for_splitter" -> get_ports_for_splitter(d, s)
      [] s.pc = "get_all_users" -> get_all_users(d, s)
      [] s.pc = "get_customers_by_status" -> get_customers_by_status(d, s)
      [] s.pc = "get_customer_provisioning_details" ->
            get_customer_provisioning_details(d, s)
      [] s.pc = "get_customer_deactivation_details" ->
            get_customer_deactivation_details(d, s)
      [] s.pc = "get_tasks_by_status" -> get_tasks_by_status(d, s)
      [] s.pc = "ck_load_task" -> CKLoadTask(d, s)
      [] s.pc = "ck_commit" ->
            IF AuditRejected(s) THEN CKRollback(d, s) ELSE CKCommit(d, s)

\* the whole request, run with no other request in between
RECURSIVE Run(_, _)
Run(d, s) ==
    IF s.pc = "done" THEN Step(d, s)
    ELSE LET r == Handler(d, s) IN Run(r.db, r.s)

Idle == [pc |-> "idle"]

\* the database as seeded: customer 1 provisioned on splitter 2 with ONT 1
\* and Router 3, and one deployment task for it
SeedDb(task_status) ==
    [customers |-> (1 :> [status |-> "Pending"]),
     next_customer_id |-> 2,
     next_task_id |-> 2,
     splitters |-> (1 :> [max_ports |-> 1, used_ports |-> 0]
                 @@ 2 :> [max_ports |-> 2, used_ports |-> 1]),
     ports |-> (1 :> [splitter_id |-> 1, port_status |-> "free",
                      customer_id |-> NULL]
             @@ 2 :> [splitter_id |-> 2, port_status |-> "occupied",
                      customer_id |-> 1]
             @@ 3 :> [splitter_id |-> 2, port_status |-> "free",
                      customer_id |-> NULL]),
     assets |-> (1 :> [type |-> "ONT", status |-> "assigned",
                       assigned_to_customer_id |-> 1, port_id |-> 2]
              @@ 2 :> [type |-> "ONT", status |-> "available",
                       assigned_to_customer_id |-> NULL, port_id |-> NULL]
              @@ 3 :> [type |-> "Router", status |-> "assigned",
                       assigned_to_customer_id |-> 1, port_id |-> NULL]
              @@ 4 :> [type |-> "Router", status |-> "available",
                       assigned_to_customer_id |-> NULL, port_id |-> NULL]),
     assignments |-> <<NewAssignment(1, 1), NewAssignment(3, 1)>>,
     tasks |-> (1 :> [customer_id |-> 1, user_id |-> 1,
                      status |-> task_status,
                      step_1 |-> FALSE, step_2 |-> FALSE, step_3 |-> FALSE]),
     audit |-> <<>>]

Init ==
    /\ \E task_status \in {"Scheduled", "Failed"} : db = SeedDb(task_status)
    /\ last = Idle
    /\ proc = [w \in {1, 2} |-> Idle]

\* the server takes the next request.  A rejected request leaves the
\* database as it was (RejectedChangesNothing), so the requests that can
\* follow it are the ones that can follow the accepted request before it:
\* the next request is explored from there.
Ready ==
    /\ Len(db.audit) < MaxAudit
    /\ IF last.pc = "idle" THEN TRUE ELSE last.code = "OK"

\* a request served alone, start to finish
Serve(s) ==
    /\ LET r == Run(db, s) IN db' = r.db /\ last' = r.s
    /\ UNCHANGED proc

CreateCustomer ==
    \E user \in Operators, splitter_id \in SplitterArgs,
       ont_asset_id \in AssetArgs, router_asset_id \in AssetArgs :
        /\ Ready
        /\ Serve(CCBegin(user, splitter_id, ont_asset_id, router_asset_id))

DeactivateCustomerAndProvisioning ==
    \E user \in Operators, customer_id \in CustomerArgs,
       order \in {"asc", "desc"} :
        /\ Ready
        /\ Serve(DCBegin(user, customer_id, order))

UpdateAsset ==
    \E user \in Operators, asset_id \in AssetArgs, status \in AssetStatus :
        /\ Ready
        /\ Serve(UABegin(user, asset_id, status))

DeleteAsset ==
    \E user \in Operators, asset_id \in AssetArgs :
        /\ Ready
        /\ Serve(DABegin(user, asset_id))

SwapAssets ==
    \E user \in Operators, old_asset_id \in AssetArgs,
       new_asset_id \in AssetArgs :
        /\ Ready
        /\ Serve(SWBegin(user, old_asset_id, new_asset_id))

CreateDeploymentTask ==
    \E user \in Operators, customer_id \in CustomerArgs, user_id \in UserArgs :
        /\ Ready
        /\ Serve(CTBegin(user, customer_id, user_id))

UpdateTaskChecklist ==
    \E user \in UserIds, task_id \in TaskArgs,
       step_1 \in BOOLEAN, step_2 \in BOOLEAN, step_3 \in BOOLEAN :
        /\ Ready
        /\ Serve(CKBegin(user, task_id, step_1, step_2, step_3))

Next ==
    \/ CreateCustomer
    \/ DeactivateCustomerAndProvisioning
    \/ SwapAssets
    \/ CreateDeploymentTask
    \/ UpdateTaskChecklist

Spec == Init /\ [][Next]_vars

\* the requests that write Asset and AssetAssignment rows, asset management
\* included
AssetNext ==
    \/ CreateCustomer
    \/ DeactivateCustomerAndProvisioning
    \/ UpdateAsset
    \/ DeleteAsset
    \/ SwapAssets

AssetSpec == Init /\ [][AssetNext]_vars

\* the three write requests whose audit record is part of the transaction,
\* with the AuditLog insert rejected
CreateCustomerAuditRejected ==
    \E user \in Operators, splitter_id \in SplitterIds,
       ont_asset_id \in AssetIds, router_asset_id \in AssetIds :
        /\ Ready
        /\ Serve(WithAuditFailure(CCBegin(user, splitter_id, ont_asset_id,
                                          router_asset_id)))

DeactivateAuditRejected ==
    \E user \in Operators, customer_id \in CustomerArgs :
        /\ Ready
        /\ Serve(WithAuditFailure(DCBegin(user, customer_id, "asc")))

ChecklistAuditRejected ==
    \E user \in UserIds, task_id \in TaskArgs,
       step_1 \in BOOLEAN, step_2 \in BOOLEAN, step_3 \in BOOLEAN :
        /\ Ready
        /\ Serve(WithAuditFailure(CKBegin(user, task_id, step_1, step_2, step_3)))

AuditFailNext ==
    \/ CreateCustomer
    \/ DeactivateCustomerAndProvisioning
    \/ UpdateTaskChecklist
    \/ CreateCustomerAuditRejected
    \/ DeactivateAuditRejected
    \/ ChecklistAuditRejected

AuditFailSpec == Init /\ [][AuditFailNext]_vars

\* a request whose READ audit insert is rejected, or not
AuditOutcome(s, audit_fails) ==
    IF audit_fails THEN WithAuditFailure(s) ELSE s

\* GET /splitters/{splitter_id}/ports
GetPortsForSplitter ==
    \E user \in Operators, splitter_id \in SplitterArgs,
       audit_fails \in BOOLEAN :
        /\ Ready
        /\ Serve(AuditOutcome(GPBegin(user, splitter_id), audit_fails))

\* GET /users
GetAllUsers ==
    \E user \in Operators, audit_fails \in BOOLEAN :
        /\ Ready
        /\ Serve(AuditOutcome(GUBegin(user), audit_fails))

\* GET /customers?status=
GetCustomersByStatus ==
    \E user \in Operators, status \in {"Pending", "Active", "Inactive"},
       audit_fails \in BOOLEAN :
        /\ Ready
        /\ Serve(AuditOutcome(GCBegin(user, status), audit_fails))

\* GET /customers/{customer_id}/provisioning-details
GetProvisioningDetails ==
    \E user \in Operators, customer_id \in CustomerArgs,
       audit_fails \in BOOLEAN :
        /\ Ready
        /\ Serve(AuditOutcome(GDBegin(user, customer_id, "asc"), audit_fails))

\* GET /customers/{customer_id}/deactivation-details
GetDeactivationDetails ==
    \E user \in Operators, customer_id \in CustomerArgs,
       audit_fails \in BOOLEAN :
        /\ Ready
        /\ Serve(AuditOutcome(GXBegin(user, customer_id, "asc"), audit_fails))

\* GET /deployment-tasks?status=
GetTasksByStatus ==
    \E user \in UserIds, status \in {"Scheduled", "InProgress", "Completed", "Failed"},
       audit_fails \in BOOLEAN :
        /\ Ready
        /\ Serve(AuditOutcome(GTBegin(user, status), audit_fails))

\* the five state-changing operations and the six audited reads
ReadNext ==
    \/ Next
    \/ GetPortsForSplitter
    \/ GetAllUsers
    \/ GetCustomersByStatus
    \/ GetProvisioningDetails
    \/ GetDeactivationDetails
    \/ GetTasksByStatus

ReadSpec == Init /\ [][ReadNext]_vars

\* every request the model serves
AppNext ==
    \/ Next
    \/ UpdateAsset
    \/ DeleteAsset

AppSpec == Init /\ [][AppNext]_vars

(* ------------------------ concurrent requests ------------------------- *)

\* request workers (thread per request, one session each)
Workers == {1, 2}

\* worker w is free to take a new request
Free(w) ==
    /\ proc[w].pc \in {"idle", "done"}
    /\ Len(db.audit) < MaxConcAudit

\* worker w starts on request s
Accept(w, s) ==
    /\ proc' = [proc EXCEPT ![w] = s]
    /\ UNCHANGED <<db, last>>

\* worker w performs the database round trip it stands at
RoundTrip(w, pc) ==
    /\ proc[w].pc = pc
    /\ LET r == Handler(db, proc[w])
       IN db' = r.db /\ proc' = [proc EXCEPT ![w] = r.s]
    /\ UNCHANGED last

AcceptCreateCustomer(w) ==
    \E splitter_id \in SplitterIds, ont_asset_id \in {1, 2},
       router_asset_id \in {3, 4} :
        /\ Free(w)
        /\ Accept(w, CCBegin(3, splitter_id, ont_asset_id, router_asset_id))

AcceptDeactivate(w) ==
    \E customer_id \in {1, 2} :
        /\ Free(w)
        /\ Accept(w, DCBegin(3, customer_id, "asc"))

AcceptChecklist(w) ==
    \E step_1 \in BOOLEAN, step_3 \in BOOLEAN :
        /\ Free(w)
        /\ Accept(w, CKBegin(3, 1, step_1, step_1, step_3))

CreateCustomerFindPort(w) == RoundTrip(w, "cc_find_port")
CreateCustomerGetSplitter(w) == RoundTrip(w, "cc_get_splitter")
CreateCustomerGetOnt(w) == RoundTrip(w, "cc_get_ont")
CreateCustomerGetRouter(w) == RoundTrip(w, "cc_get_router")
CreateCustomerFlush(w) == RoundTrip(w, "cc_flush_customer")
CreateCustomerCommit(w) == RoundTrip(w, "cc_commit")
DeactivateLoadCustomer(w) == RoundTrip(w, "dc_load_customer")
DeactivateGetSplitter(w) == RoundTrip(w, "dc_get_splitter")
DeactivateCommit(w) == RoundTrip(w, "dc_commit")
ChecklistLoadTask(w) == RoundTrip(w, "ck_load_task")
ChecklistCommit(w) == RoundTrip(w, "ck_commit")

ConcNext ==
    \E w \in Workers :
        \/ AcceptCreateCustomer(w)
        \/ AcceptDeactivate(w)
        \/ AcceptChecklist(w)
        \/ CreateCustomerFindPort(w)
        \/ CreateCustomerGetSplitter(w)
        \/ CreateCustomerGetOnt(w)
        \/ CreateCustomerGetRouter(w)
        \/ CreateCustomerFlush(w)
        \/ CreateCustomerCommit(w)
        \/ DeactivateLoadCustomer(w)
        \/ DeactivateGetSplitter(w)
        \/ DeactivateCommit(w)
        \/ ChecklistLoadTask(w)
        \/ ChecklistCommit(w)

ConcSpec == Init /\ [][ConcNext]_vars

(* ============================== claims ================================ *)

\* the committed tables (the autoincrement counters are not rows)
Tables(d) ==
    [customers |-> d.customers, ports |-> d.ports, splitters |-> d.splitters,
     assets |-> d.assets, assignments |-> d.assignments, audit |-> d.audit,
     tasks |-> d.tasks]

\* this step served a request of handler `op` from start to finish
Served(op) == last'.pc = "done" /\ last'.op = op

\* every handler: a rejected request commits nothing
RejectedChangesNothing ==
    [][(last'.pc = "done" /\ last'.code # "OK") => Tables(db') = Tables(db)]_vars

\* C1: a create_customer that fails at any validation step (no free port,
\* splitter missing, ONT or router missing / wrong type / not available)
\* leaves the Customer, Port, Splitter, Asset, AssetAssignment and AuditLog
\* tables exactly as they were before the call.
C1_FailedProvisioningChangesNothing ==
    [][(Served("create_customer") /\ last'.code # "OK")
        => /\ db'.customers = db.customers
           /\ db'.ports = db.ports
           /\ db'.splitters = db.splitters
           /\ db'.assets = db.assets
           /\ db'.assignments = db.assignments
           /\ db'.audit = db.audit]_vars

\* C1 witness: a call rejected at the last validation step (a free port, the
\* splitter and a usable ONT were found, the router is not usable).
C1_Witness ==
    /\ last.pc = "done" /\ last.op = "create_customer"
    /\ last.code = "HTTP_409_CONFLICT"
    /\ FindFreePort(db.ports, last.args.splitter_id) # NULL
    /\ AssetUsable(db.assets, last.args.ont_asset_id, "ONT")
    /\ ~AssetUsable(db.assets, last.args.router_asset_id, "Router")

\* C4: a create_customer that passes all validations, run alone, returns a
\* new customer with status Pending and commits exactly: one previously free
\* port of the named splitter occupied by the new customer, that splitter's
\* used_ports + 1, the ONT and the router assigned to the new customer, and
\* two new open AssetAssignment rows (bearing), one per asset.
C4_ProvisioningEffects ==
    [][(Served("create_customer") /\ last'.code = "OK") =>
        LET a == last'.args
            cid == a.customer_id
            taken == {p \in PortIds : db'.ports[p] # db.ports[p]}
            n == Len(db.assignments)
        IN /\ cid \notin DOMAIN db.customers
           /\ DOMAIN db'.customers = DOMAIN db.customers \cup {cid}
           /\ db'.customers[cid].status = "Pending"
           /\ last'.ret = "Pending"
           /\ \E p \in PortIds :
                /\ taken = {p}
                /\ db.ports[p].port_status = "free"
                /\ db.ports[p].splitter_id = a.splitter_id
                /\ db'.ports[p] = [splitter_id |-> a.splitter_id,
                                   port_status |-> "occupied",
                                   customer_id |-> cid]
           /\ db'.splitters[a.splitter_id].used_ports =
                db.splitters[a.splitter_id].used_ports + 1
           /\ \A x \in {a.ont_asset_id, a.router_asset_id} :
                /\ db'.assets[x].status = "assigned"
                /\ db'.assets[x].assigned_to_customer_id = cid
           /\ Len(db'.assignments) = n + 2
           /\ SubSeq(db'.assignments, 1, n) = db.assignments
           /\ {db'.assignments[n + 1], db'.assignments[n + 2]} =
                {[asset_id |-> x, customer_id |-> cid,
                  bearing_status |-> "bearing", date_of_return |-> NULL]
                 : x \in {a.ont_asset_id, a.router_asset_id}}
           /\ a.ont_asset_id # a.router_asset_id]_vars

\* C4 witness: a customer has just been provisioned.
C4_Witness ==
    /\ last.pc = "done" /\ last.op = "create_customer" /\ last.code = "OK"
    /\ db.customers[last.args.customer_id].status = "Pending"

\* C5: when the named splitter exists and has no free port, create_customer
\* fails with 409 Conflict and the splitter's used_ports is unchanged,
\* whatever ONT and router ids are supplied.
C5_NoCapacity ==
    [][(/\ Served("create_customer")
        /\ last'.args.splitter_id \in DOMAIN db.splitters
        /\ \A p \in PortIds : db.ports[p].splitter_id = last'.args.splitter_id
                                => db.ports[p].port_status # "free")
        => /\ last'.code = "HTTP_409_CONFLICT"
           /\ db'.splitters[last'.args.splitter_id].used_ports =
                db.splitters[last'.args.splitter_id].used_ports]_vars

\* C5 witness: a call naming a full splitter was rejected although the ONT
\* and the router it named were usable.
C5_Witness ==
    /\ last.pc = "done" /\ last.op = "create_customer"
    /\ last.code = "HTTP_409_CONFLICT"
    /\ last.args.splitter_id \in DOMAIN db.splitters
    /\ FindFreePort(db.ports, last.args.splitter_id) = NULL
    /\ db.splitters[last.args.splitter_id].used_ports =
         db.splitters[last.args.splitter_id].max_ports
    /\ AssetUsable(db.assets, last.args.ont_asset_id, "ONT")
    /\ AssetUsable(db.assets, last.args.router_asset_id, "Router")

\* C6: deactivating the same existing customer twice in a row returns status
\* Inactive both times, and the second call leaves the Port, Asset, Splitter
\* (used_ports included) and AssetAssignment tables as the first call left
\* them: used_ports is decremented once.
C6_DeactivationIdempotent ==
    [][/\ (Served("deactivate_customer_and_provisioning") /\ last'.code = "OK")
            => last'.ret = "Inactive"
       /\ (/\ last.pc = "done"
           /\ last.op = "deactivate_customer_and_provisioning"
           /\ last.code = "OK"
           /\ Served("deactivate_customer_and_provisioning")
           /\ last'.args.customer_id = last.args.customer_id)
            => /\ last'.code = "OK"
               /\ last'.ret = "Inactive"
               /\ db'.ports = db.ports
               /\ db'.splitters = db.splitters
               /\ db'.assets = db.assets
               /\ db'.assignments = db.assignments]_vars

\* C6 witness: a customer that held a port and assets has been deactivated and
\* the call returned Inactive (the second call returns from this same state
\* and leaves it as it is).
C6_Witness ==
    /\ last.pc = "done" /\ last.op = "deactivate_customer_and_provisioning"
    /\ last.code = "OK" /\ last.ret = "Inactive"
    /\ db.customers[last.args.customer_id].status = "Inactive"
    /\ \E i \in 1..Len(db.assignments) :
        /\ db.assignments[i].customer_id = last.args.customer_id
        /\ db.assignments[i].date_of_return # NULL
    /\ \E k \in 1..Len(db.audit) :
        db.audit[k].description = <<"deactivated customer", last.args.customer_id>>

\* C7: a successful deactivation of a customer that is not Inactive commits
\* together: the customer Inactive; the customer's occupied port free with
\* customer_id null and that port's splitter's used_ports one lower, not below
\* 0; the customer's assigned ONT and router available with the customer
\* binding cleared (the ONT's port_id too); and the open AssetAssignment rows
\* of those assets for this customer closed (date_of_return set, returned).
C7_DeactivationEffects ==
    [][(/\ Served("deactivate_customer_and_provisioning")
        /\ last'.code = "OK"
        /\ db.customers[last'.args.customer_id].status # "Inactive") =>
        LET cid == last'.args.customer_id
        IN /\ db'.customers[cid].status = "Inactive"
           /\ \A p \in PortIds :
                (db.ports[p].customer_id = cid
                    /\ db.ports[p].port_status = "occupied")
                => /\ db'.ports[p].port_status = "free"
                   /\ db'.ports[p].customer_id = NULL
                   /\ db'.splitters[db.ports[p].splitter_id].used_ports =
                        IF db.splitters[db.ports[p].splitter_id].used_ports = 0
                        THEN 0
                        ELSE db.splitters[db.ports[p].splitter_id].used_ports - 1
           /\ \A x \in DOMAIN db.assets :
                (db.assets[x].assigned_to_customer_id = cid
                    /\ db.assets[x].status = "assigned")
                => /\ db'.assets[x].status = "available"
                   /\ db'.assets[x].assigned_to_customer_id = NULL
                   /\ db.assets[x].type = "ONT" => db'.assets[x].port_id = NULL
                   /\ \A i \in 1..Len(db.assignments) :
                        (/\ db.assignments[i].asset_id = x
                         /\ db.assignments[i].customer_id = cid
                         /\ db.assignments[i].date_of_return = NULL)
                        => /\ db'.assignments[i].date_of_return # NULL
                           /\ db'.assignments[i].bearing_status = "returned"]_vars

\* the number of checked steps
Checked(step_1, step_2, step_3) ==
    (IF step_1 THEN 1 ELSE 0) + (IF step_2 THEN 1 ELSE 0)
        + (IF step_3 THEN 1 ELSE 0)

\* C8: after every accepted update_task_checklist the task's status is decided
\* by the submitted steps alone: none checked Scheduled, one or two checked
\* InProgress, all three Completed; and the stored steps are the submitted
\* ones.
C8_ChecklistTable ==
    (last.pc = "done" /\ last.op = "update_task_checklist" /\ last.code = "OK")
    => LET a == last.args
           task == db.tasks[a.task_id]
           n == Checked(a.step_1, a.step_2, a.step_3)
       IN /\ task.step_1 = a.step_1
          /\ task.step_2 = a.step_2
          /\ task.step_3 = a.step_3
          /\ n = 0 => task.status = "Scheduled"
          /\ n \in {1, 2} => task.status = "InProgress"
          /\ n = 3 => task.status = "Completed"
          /\ last.ret = task.status

\* C8 witness: an accepted update with no step checked took a task that was
\* InProgress back to Scheduled.
C8_Witness ==
    /\ last.pc = "done" /\ last.op = "update_task_checklist" /\ last.code = "OK"
    /\ ~last.args.step_1 /\ ~last.args.step_2 /\ ~last.args.step_3
    /\ db.audit[Len(db.audit)].description =
         <<"updated checklist", last.args.task_id, "InProgress", "Scheduled">>

\* C10 as stated: update_task_checklist on an existing task that is Completed
\* or Failed fails with 400 for every caller and every step triple, and leaves
\* the task, the customer and the audit log unchanged.
C10_TerminalGuardAlways400 ==
    [][(/\ Served("update_task_checklist")
        /\ last'.args.task_id \in DOMAIN db.tasks
        /\ db.tasks[last'.args.task_id].status \in {"Completed", "Failed"})
        => /\ last'.code = "HTTP_400_BAD_REQUEST"
           /\ db'.tasks = db.tasks
           /\ db'.customers = db.customers
           /\ db'.audit = db.audit]_vars

\* C10 amended: on an existing task that is Completed or Failed the call
\* fails for every caller and every step triple and changes nothing: with 403
\* when the caller is a Technician other than the task's assigned user (the
\* permission check comes first), with 400 otherwise.
C10_TerminalGuard ==
    [][(/\ Served("update_task_checklist")
        /\ last'.args.task_id \in DOMAIN db.tasks
        /\ db.tasks[last'.args.task_id].status \in {"Completed", "Failed"})
        => /\ last'.code =
                IF /\ UserRole[last'.args.user] = "Technician"
                   /\ db.tasks[last'.args.task_id].user_id # last'.args.user
                THEN "HTTP_403_FORBIDDEN"
                ELSE "HTTP_400_BAD_REQUEST"
           /\ db'.tasks = db.tasks
           /\ db'.customers = db.customers
           /\ db'.audit = db.audit]_vars

\* C10 witness: the task's assigned technician was refused with 400 on a
\* task that is Completed.
C10_Witness ==
    /\ last.pc = "done" /\ last.op = "update_task_checklist"
    /\ last.code = "HTTP_400_BAD_REQUEST"
    /\ last.args.step_1 /\ ~last.args.step_2
    /\ db.tasks[last.args.task_id].status = "Completed"
    /\ db.tasks[last.args.task_id].user_id = last.args.user

\* worker w has finished a create_customer that was accepted
Provisioned(w) ==
    /\ proc[w].pc = "done" /\ proc[w].op = "create_customer"
    /\ proc[w].code = "OK"

\* C2: of two interleaved create_customer calls for one splitter, each with
\* its own ONT and router, at most one is given a port: no state has both
\* accepted with the same Port bound by both (two customers created for the
\* one port).
C2_NoDoubleAllocation ==
    \A w1 \in Workers, w2 \in Workers :
        (/\ w1 # w2
         /\ Provisioned(w1) /\ Provisioned(w2)
         /\ proc[w1].args.splitter_id = proc[w2].args.splitter_id
         /\ proc[w1].args.ont_asset_id # proc[w2].args.ont_asset_id
         /\ proc[w1].args.router_asset_id # proc[w2].args.router_asset_id)
        => ~ /\ db.assets[proc[w1].args.ont_asset_id].port_id # NULL
             /\ db.assets[proc[w1].args.ont_asset_id].port_id =
                  db.assets[proc[w2].args.ont_asset_id].port_id
             /\ db.assets[proc[w1].args.ont_asset_id].assigned_to_customer_id
                  = proc[w1].args.customer_id
             /\ db.assets[proc[w2].args.ont_asset_id].assigned_to_customer_id
                  = proc[w2].args.customer_id

\* C3: of two interleaved create_customer calls naming the same available ONT
\* (or the same available router), at most one commits with that asset: no
\* state has both accepted with an open AssetAssignment row of the shared
\* asset for each of the two new customers.
C3_NoAssetAssignedTwice ==
    \A w1 \in Workers, w2 \in Workers :
        (w1 # w2 /\ Provisioned(w1) /\ Provisioned(w2))
        => \A x \in {proc[w1].args.ont_asset_id, proc[w1].args.router_asset_id}
                \cap {proc[w2].args.ont_asset_id, proc[w2].args.router_asset_id} :
            ~ \E i \in 1..Len(db.assignments), j \in 1..Len(db.assignments) :
                /\ db.assignments[i] =
                     [asset_id |-> x, customer_id |-> proc[w1].args.customer_id,
                      bearing_status |-> "bearing", date_of_return |-> NULL]
                /\ db.assignments[j] =
                     [asset_id |-> x, customer_id |-> proc[w2].args.customer_id,
                      bearing_status |-> "bearing", date_of_return |-> NULL]

C11_TechnicianNeverTouchesOthers ==
    [][(/\ Served("update_task_checklist")
        /\ UserRole[last'.args.user] = "Technician")
        => \A t \in DOMAIN db.tasks :
            db.tasks[t].user_id # last'.args.user
            => /\ t = last'.args.task_id
                    => /\ last'.code = "HTTP_403_FORBIDDEN"
                       /\ Tables(db') = Tables(db)
               /\ db'.tasks[t] = db.tasks[t]
               /\ db'.customers[db.tasks[t].customer_id] =
                    db.customers[db.tasks[t].customer_id]]_vars

\* C11 amended: a Technician's update_task_checklist on a task assigned to
\* another user fails with 403 and changes nothing; no call by a Technician
\* changes the steps or status of a task assigned to another user, and the
\* only customer whose status such a call changes is the customer of the task
\* it names, which is assigned to the caller.
C11_TechnicianOwnTaskOnly ==
    [][(/\ Served("update_task_checklist")
        /\ UserRole[last'.args.user] = "Technician")
        => /\ \A t \in DOMAIN db.tasks :
                db.tasks[t].user_id # last'.args.user
                => /\ t = last'.args.task_id
                        => /\ last'.code = "HTTP_403_FORBIDDEN"
                           /\ Tables(db') = Tables(db)
                   /\ db'.tasks[t] = db.tasks[t]
           /\ \A c \in DOMAIN db.customers :
                db'.customers[c] # db.customers[c]
                => /\ last'.args.task_id \in DOMAIN db.tasks
                   /\ db.tasks[last'.args.task_id].user_id = last'.args.user
                   /\ db.tasks[last'.args.task_id].customer_id = c]_vars

\* C11 witness: a Technician was refused with 403 on a task that is assigned
\* to another user and is still open.
C11_Witness ==
    /\ last.pc = "done" /\ last.op = "update_task_checklist"
    /\ last.code = "HTTP_403_FORBIDDEN"
    /\ UserRole[last.args.user] = "Technician"
    /\ last.args.task_id \in DOMAIN db.tasks
    /\ db.tasks[last.args.task_id].user_id # last.args.user
    /\ db.tasks[last.args.task_id].status = "Scheduled"
    /\ last.args.step_1 /\ last.args.step_2 /\ last.args.step_3


\* C12: in every state reached by a sequence of served requests, each Port
\* has a customer_id exactly when its port_status is occupied.
C12_PortBoundIffOccupied ==
    \A p \in DOMAIN db.ports :
        (db.ports[p].customer_id # NULL) <=> (db.ports[p].port_status = "occupied")

\* the seeded port has been freed by a deactivation and another port has
\* been bound by a create_customer
C12_Witness ==
    /\ db.ports[2].port_status = "free" /\ db.ports[2].customer_id = NULL
    /\ \E p \in DOMAIN db.ports :
        /\ db.ports[p].port_status = "occupied"
        /\ db.ports[p].customer_id \in DOMAIN db.customers \ {1}


\* number of Ports of splitter sp that are occupied
OccupiedCount(d, sp) ==
    Cardinality({p \in DOMAIN d.ports :
                    /\ d.ports[p].splitter_id = sp
                    /\ d.ports[p].port_status = "occupied"})

\* C13: in every committed state reached by interleaved create_customer and
\* deactivation calls, each splitter's used_ports equals the number of its
\* Ports with port_status occupied.
C13_UsedPortsCountsOccupied ==
    \A sp \in DOMAIN db.splitters :
        db.splitters[sp].used_ports = OccupiedCount(db, sp)


\* C14: in every reachable state each splitter has 0 <= used_ports <=
\* max_ports.
C14_UsedPortsWithinBounds ==
    \A sp \in DOMAIN db.splitters :
        /\ 0 <= db.splitters[sp].used_ports
        /\ db.splitters[sp].used_ports <= db.splitters[sp].max_ports


\* asset x has an AssetAssignment row with date_of_return null
HasOpenAssignment(d, x) ==
    \E i \in 1..Len(d.assignments) :
        /\ d.assignments[i].asset_id = x
        /\ d.assignments[i].date_of_return = NULL

\* C15: in every state reached by a sequence of served requests, an Asset has
\* status assigned exactly when its assigned_to_customer_id is set and it has
\* an AssetAssignment row with date_of_return null.
C15_AssignedIffBoundAndOpen ==
    \A x \in DOMAIN db.assets :
        (db.assets[x].status = "assigned")
        <=> (/\ db.assets[x].assigned_to_customer_id # NULL
             /\ HasOpenAssignment(db, x))

\* an asset was swapped out (it is unbound, its row still open), one asset has
\* been deleted and another set to faulty by update_asset, while an assigned
\* asset keeps its customer and open row
C15_Witness ==
    /\ \E x \in DOMAIN db.assets :
        /\ db.assets[x].status # "assigned"
        /\ db.assets[x].assigned_to_customer_id = NULL
        /\ HasOpenAssignment(db, x)
    /\ \E x \in DOMAIN db.assets :
        /\ db.assets[x].status = "assigned"
        /\ db.assets[x].assigned_to_customer_id # NULL
        /\ HasOpenAssignment(db, x)
    /\ \E x \in DOMAIN db.assets : db.assets[x].status = "faulty"
    /\ DOMAIN db.assets # AssetIds


\* C16: in every state reached by a sequence of create_customer, deactivation
\* and swap_assets calls, each asset has at most one AssetAssignment row with
\* date_of_return null.
C16_AtMostOneOpenAssignment ==
    \A i \in 1..Len(db.assignments), j \in 1..Len(db.assignments) :
        (/\ db.assignments[i].asset_id = db.assignments[j].asset_id
         /\ db.assignments[i].date_of_return = NULL
         /\ db.assignments[j].date_of_return = NULL)
        => i = j


\* C17: the audit log is append-only: every step keeps each committed
\* AuditLog row in place with the same user_id, action_type and description,
\* and only adds rows after them.
C17_AuditAppendOnly ==
    [][/\ Len(db'.audit) >= Len(db.audit)
       /\ SubSeq(db'.audit, 1, Len(db.audit)) = db.audit]_vars

\* three requests of three kinds have each committed an audit row
C17_Witness ==
    /\ Len(db.audit) = MaxAudit
    /\ {db.audit[i].action_type : i \in 1..Len(db.audit)}
         = {"CREATE", "UPDATE", "DELETE"}
    /\ db.audit[1].action_type # "CREATE"


\* the AuditLog rows that record the creation of customer c
CreateRowsOf(d, c) ==
    {i \in 1..Len(d.audit) :
        /\ d.audit[i].action_type = "CREATE"
        /\ d.audit[i].description = <<"created customer", c>>}

\* C18: a step of a create_customer call commits something only when the call
\* returns its customer, and that step adds the new customer and exactly one
\* CREATE AuditLog row naming the caller and the customer; a call that fails
\* adds no row. Every committed state has one such row for each customer
\* create_customer made, and a customer for each such row.
C18_AuditWithProvisioning ==
    [][/\ \A w \in Workers :
            (/\ proc[w].pc \notin {"idle", "done"}
             /\ proc[w].op = "create_customer"
             /\ proc'[w] # proc[w])
            => IF proc'[w].pc = "done" /\ proc'[w].code = "OK"
               THEN /\ proc'[w].args.customer_id \notin DOMAIN db.customers
                    /\ proc'[w].args.customer_id \in DOMAIN db'.customers
                    /\ db'.audit = Append(db.audit,
                            [user_id |-> proc[w].args.user,
                             action_type |-> "CREATE",
                             description |->
                                <<"created customer", proc'[w].args.customer_id>>])
               ELSE Tables(db') = Tables(db)
       /\ \A c \in DOMAIN db'.customers \ DOMAIN SeedDb("Scheduled").customers :
            Cardinality(CreateRowsOf(db', c)) = 1
       /\ \A i \in 1..Len(db'.audit) :
            (/\ db'.audit[i].action_type = "CREATE"
             /\ db'.audit[i].description[1] = "created customer")
            => db'.audit[i].description[2] \in DOMAIN db'.customers]_vars

\* one create_customer has committed and another has failed
C18_Witness ==
    \E w1 \in Workers, w2 \in Workers :
        /\ Provisioned(w1)
        /\ CreateRowsOf(db, proc[w1].args.customer_id) # {}
        /\ proc[w2].pc = "done" /\ proc[w2].op = "create_customer"
        /\ proc[w2].code = "HTTP_409_CONFLICT"
        /\ Len(db.audit) = 2


\* C19: a create_customer call whose splitter_id names no Splitter fails with
\* 404 Not Found and changes nothing.
C19_MissingSplitterNotFound ==
    [][(/\ Served("create_customer")
        /\ last'.args.splitter_id \notin DOMAIN db.splitters)
       => /\ last'.code = "HTTP_404_NOT_FOUND"
          /\ Tables(db') = Tables(db)]_vars


\* C20: create_customer succeeds only if ont_asset_id names an existing Asset
\* of type ONT with status available and router_asset_id an existing Asset of
\* type Router with status available; in every other case it fails with 409
\* Conflict and no asset changes.
C20_AssetValidation ==
    [][Served("create_customer")
       => LET ont == last'.args.ont_asset_id
              rtr == last'.args.router_asset_id
              usable == /\ ont \in DOMAIN db.assets
                        /\ db.assets[ont].type = "ONT"
                        /\ db.assets[ont].status = "available"
                        /\ rtr \in DOMAIN db.assets
                        /\ db.assets[rtr].type = "Router"
                        /\ db.assets[rtr].status = "available"
          IN /\ last'.code = "OK" => usable
             /\ ~ usable => /\ last'.code = "HTTP_409_CONFLICT"
                            /\ db'.assets = db.assets]_vars

\* a call naming one available ONT as both ONT and router, for a splitter
\* with a free port, was refused with 409 while another asset is faulty
C20_Witness ==
    /\ last.pc = "done" /\ last.op = "create_customer"
    /\ last.code = "HTTP_409_CONFLICT"
    /\ last.args.ont_asset_id = last.args.router_asset_id
    /\ last.args.ont_asset_id \in DOMAIN db.assets
    /\ db.assets[last.args.ont_asset_id].type = "ONT"
    /\ db.assets[last.args.ont_asset_id].status = "available"
    /\ \E p \in DOMAIN db.ports :
        /\ db.ports[p].splitter_id = last.args.splitter_id
        /\ db.ports[p].port_status = "free"
    /\ \E x \in DOMAIN db.assets : db.assets[x].status \in {"faulty", "retired"}


\* the free Ports of splitter sp
FreePortsOf(d, sp) ==
    {p \in DOMAIN d.ports :
        /\ d.ports[p].splitter_id = sp
        /\ d.ports[p].port_status = "free"}

\* C21: a successful create_customer occupies, for the new customer, the free
\* Port of the named splitter with the lowest port_id, and leaves every other
\* Port of every splitter as it was.
C21_LowestFreePort ==
    [][(Served("create_customer") /\ last'.code = "OK")
       => LET free == FreePortsOf(db, last'.args.splitter_id)
          IN /\ free # {}
             /\ \A p \in DOMAIN db'.ports :
                  IF p \in free /\ \A q \in free : p <= q
                  THEN db'.ports[p] =
                         [splitter_id |-> last'.args.splitter_id,
                          port_status |-> "occupied",
                          customer_id |-> last'.args.customer_id]
                  ELSE db'.ports[p] = db.ports[p]]_vars

\* a create_customer for splitter 2, whose two ports were both free, took
\* port 2 and left port 3 free
C21_Witness ==
    /\ last.pc = "done" /\ last.op = "create_customer" /\ last.code = "OK"
    /\ last.args.splitter_id = 2
    /\ db.ports[2].port_status = "occupied"
    /\ db.ports[2].customer_id = last.args.customer_id
    /\ db.ports[3].port_status = "free"


\* C22: a successful create_customer sets the ONT's port_id to the chosen
\* Port and leaves the Router's port_id null; and starting from Routers with
\* no port_id, every Asset of type Router has port_id null in every state
\* reached by create_customer, swap_assets and deactivation.
C22_PortLinkedToOntOnly ==
    [][/\ (Served("create_customer") /\ last'.code = "OK")
          => /\ db'.assets[last'.args.ont_asset_id].port_id
                  \in FreePortsOf(db, last'.args.splitter_id)
             /\ db'.ports[db'.assets[last'.args.ont_asset_id].port_id].customer_id
                  = last'.args.customer_id
             /\ db'.assets[last'.args.router_asset_id].port_id = NULL
       /\ \A x \in DOMAIN db'.assets :
            db'.assets[x].type = "Router" => db'.assets[x].port_id = NULL]_vars

\* a router was swapped, its customer deactivated, and a later
\* create_customer bound its ONT to a port
C22_Witness ==
    /\ last.pc = "done" /\ last.op = "create_customer" /\ last.code = "OK"
    /\ db.assets[last.args.ont_asset_id].port_id # NULL
    /\ \E i \in 1..Len(db.audit) :
        /\ db.audit[i].description[1] = "swapped asset"
        /\ db.assets[db.audit[i].description[2]].type = "Router"
    /\ \E c \in DOMAIN db.customers : db.customers[c].status = "Inactive"


\* C23: a deactivation of a customer whose status is already Inactive returns
\* the customer and commits nothing: every Customer, Port, Splitter, Asset,
\* AssetAssignment and DeploymentTask row is as before and no AuditLog row is
\* added.
C23_InactiveNoOp ==
    [][(/\ Served("deactivate_customer_and_provisioning")
        /\ last'.args.customer_id \in DOMAIN db.customers
        /\ db.customers[last'.args.customer_id].status = "Inactive")
       => /\ last'.code = "OK"
          /\ last'.ret = "Inactive"
          /\ Tables(db') = Tables(db)]_vars

\* a customer was deactivated, another request committed after that, and the
\* customer was deactivated again
C23_Witness ==
    /\ last.pc = "done" /\ last.op = "deactivate_customer_and_provisioning"
    /\ last.code = "OK"
    /\ Len(db.audit) = 2
    /\ db.audit[1].description = <<"deactivated customer", last.args.customer_id>>
    /\ db.audit[2].description[1] # "deactivated customer"


\* C24: a deactivation of a customer that is Pending or Active succeeds
\* whatever the state of the customer's deployment tasks, makes the customer
\* Inactive and leaves every DeploymentTask row as it was.
C24_DeactivationIgnoresTasks ==
    [][(/\ Served("deactivate_customer_and_provisioning")
        /\ last'.args.customer_id \in DOMAIN db.customers
        /\ db.customers[last'.args.customer_id].status \in {"Pending", "Active"})
       => /\ last'.code = "OK"
          /\ db'.customers[last'.args.customer_id].status = "Inactive"
          /\ db'.tasks = db.tasks]_vars

\* a customer with a Completed task and a task still open was deactivated
C24_Witness ==
    /\ last.pc = "done" /\ last.op = "deactivate_customer_and_provisioning"
    /\ last.code = "OK"
    /\ db.audit[Len(db.audit)].description
         = <<"deactivated customer", last.args.customer_id>>
    /\ \E t \in DOMAIN db.tasks :
        /\ db.tasks[t].customer_id = last.args.customer_id
        /\ db.tasks[t].status = "Completed"
    /\ \E t \in DOMAIN db.tasks :
        /\ db.tasks[t].customer_id = last.args.customer_id
        /\ db.tasks[t].status = "Scheduled"


\* C25: every DeploymentTask whose status is not Failed has the status its
\* stored steps give: Scheduled with no step checked, Completed with all
\* three, InProgress otherwise.
C25_StatusDerivedFromSteps ==
    \A t \in DOMAIN db.tasks :
        db.tasks[t].status # "Failed"
        => LET n == Checked(db.tasks[t].step_1, db.tasks[t].step_2,
                            db.tasks[t].step_3)
           IN db.tasks[t].status =
                IF n = 0 THEN "Scheduled"
                ELSE IF n = 3 THEN "Completed" ELSE "InProgress"


\* C26: when the AuditLog insert of a create_customer, a deactivation or an
\* update_task_checklist is rejected, the call fails and commits nothing: no
\* Customer, Port, Splitter, Asset, AssetAssignment or DeploymentTask row
\* changes, and no AuditLog row is added. The one such call that returns is
\* the deactivation of a customer already Inactive, which adds no AuditLog.
C26_AuditFailureAborts ==
    [][(/\ last'.pc = "done"
        /\ last'.op \in {"create_customer",
                         "deactivate_customer_and_provisioning",
                         "update_task_checklist"}
        /\ AuditRejected(last')
        /\ last' # last)
       => /\ Tables(db') = Tables(db)
          /\ last'.code = "OK"
              => /\ last'.op = "deactivate_customer_and_provisioning"
                 /\ db.customers[last'.args.customer_id].status = "Inactive"]_vars

\* an update_task_checklist that checks all three steps of an open task of a
\* Pending customer got as far as its commit and failed there
C26_Witness ==
    /\ last.pc = "done" /\ last.op = "update_task_checklist"
    /\ AuditRejected(last)
    /\ last.code = "SQLAlchemyError"
    /\ last.args.step_1 /\ last.args.step_2 /\ last.args.step_3
    /\ db.tasks[last.args.task_id].status = "InProgress"
    /\ db.customers[db.tasks[last.args.task_id].customer_id].status = "Pending"


\* the six operations that write a READ audit record
ReadOps ==
    {"get_ports_for_splitter", "get_all_users", "get_customers_by_status",
     "get_customer_provisioning_details",
     "get_customer_deactivation_details", "get_tasks_by_status"}

\* C27: whenever one of the six audited read operations is served and its
\* READ audit record cannot be written, the failure is suppressed: the
\* operation returns normally with its data (an operation that ends with 404
\* before any audit record is attempted is not concerned).
C27_ReadAuditFailureSuppressed ==
    [][(/\ last'.pc = "done"
        /\ last'.op \in ReadOps
        /\ AuditRejected(last')
        /\ last'.code # "HTTP_404_NOT_FOUND")
       => last'.code = "OK"]_vars


\* C28: a successful swap_assets(old, new) closes the old asset's open
\* AssetAssignment row (returned, date_of_return set), makes the old asset
\* available with no customer and no port, gives the new asset the customer
\* and the port the old asset had, and appends exactly one open bearing row
\* for the new asset; afterwards the old asset has no open row.
C28_SwapEffects ==
    [][(Served("swap_assets") /\ last'.code = "OK") =>
        LET old == last'.args.old_asset_id
            new == last'.args.new_asset_id
            n == Len(db.assignments)
        IN  /\ \A i \in 1..n :
                (/\ db.assignments[i].asset_id = old
                 /\ db.assignments[i].date_of_return = NULL)
                => /\ db'.assignments[i].date_of_return # NULL
                   /\ db'.assignments[i].bearing_status = "returned"
            /\ db'.assets[old].status = "available"
            /\ db'.assets[old].assigned_to_customer_id = NULL
            /\ db'.assets[old].port_id = NULL
            /\ db'.assets[new].status = "assigned"
            /\ db'.assets[new].assigned_to_customer_id
                    = db.assets[old].assigned_to_customer_id
            /\ db'.assets[new].port_id = db.assets[old].port_id
            /\ Len(db'.assignments) = n + 1
            /\ db'.assignments[n + 1]
                    = NewAssignment(new, db.assets[old].assigned_to_customer_id)
            /\ ~ HasOpenAssignment(db', old)]_vars


\* C29: Inactive is absorbing: once a deactivation has committed status
\* Inactive for a customer, no later update_task_checklist,
\* create_deployment_task, swap_assets or create_customer call changes that
\* customer's status (completing the checklist of one of its open tasks does
\* not re-activate it).
C29_InactiveAbsorbing ==
    [][\A c \in DOMAIN db.customers :
        db.customers[c].status = "Inactive"
        => db'.customers[c].status = "Inactive"]_vars


\* C30: in every state reached by create_customer, swap_assets and
\* deactivation calls, an Inactive customer holds no resources: no occupied
\* Port carries its customer_id, no assigned Asset carries it, and no
\* AssetAssignment row of the customer has date_of_return null.
C30_InactiveHoldsNothing ==
    \A c \in DOMAIN db.customers :
        db.customers[c].status = "Inactive"
        => /\ OccupiedPortsOf(db, c) = {}
           /\ ~ \E a \in DOMAIN db.assets :
                    /\ db.assets[a].status = "assigned"
                    /\ db.assets[a].assigned_to_customer_id = c
           /\ ~ \E i \in 1..Len(db.assignments) :
                    /\ db.assignments[i].customer_id = c
                    /\ db.assignments[i].date_of_return = NULL

====
